---- MODULE Spec2Model ----
(***************************************************************************)
(* A model of skyproject's in-process message bus                          *)
(* (skyproject/core/communication.py: ResizableQueue, MessageBus) and of   *)
(* the cycle coordinator (skyproject/core/orchestrator.py: Orchestrator).  *)
(*                                                                         *)
(* Every asyncio task is a process of the model and every step between two *)
(* suspension points (await of a sleep, of the log write, of an event, of  *)
(* a queue) is one action.  Timers are untimed: a timeout may fire at any  *)
(* moment at which the thing waited for has not happened.                  *)
(***************************************************************************)
EXTENDS Integers, Sequences, FiniteSets, TLC

VARIABLES
    MAX_QUEUE_SIZE, \* Config.MAX_QUEUE_SIZE, read from the environment at import
    queues,         \* MessageBus._queues: receiver -> buffered messages (FIFO)
    maxsize,        \* ResizableQueue._maxsize of each receiver's queue
    load,           \* ResizableQueue._historical_load of each receiver's queue
    handlers,       \* MessageBus._handlers: msg_type -> list of handlers
    history,        \* MessageBus._history
    acks,           \* MessageBus._acknowledgments: message id -> Event (0: no entry)
    events,         \* the asyncio.Event objects ever created: events[k] is k's flag
    sup,            \* the _wait_for_acknowledgment tasks ever created
    prod,           \* the producers (callers of send): where each one is and
                    \* the messages it still has to send
    budget,         \* what is left to explore: retry tasks, monitor
                    \* iterations, subscriptions
    htasks,         \* the handler tasks created by send
    received,       \* what receive / receive_all returned, per receiver, in order
    orch,           \* the Orchestrator (see the second part of the module)
    ret             \* the last call of the observed client of the bus (receive,
                    \* receive_all, acknowledge, get_history) and what it returned

busVars == <<MAX_QUEUE_SIZE, queues, maxsize, load, handlers, history, acks,
             events, sup, prod, budget, htasks, received, ret>>
vars == <<MAX_QUEUE_SIZE, queues, maxsize, load, handlers, history, acks,
          events, sup, prod, budget, htasks, received, orch, ret>>

---------------------------------------------------------------------------
(* Program constants *)

\* Config.MAX_RETRIES
MAX_RETRIES == 3
\* deque(maxlen=100) of ResizableQueue._historical_load, scaled down so that
\* the window rolls over within the modelled number of monitor iterations
LoadWindow == 4
\* the ceiling factor of adjust_queue_sizes: Config.MAX_QUEUE_SIZE * 10
CeilingFactor == 10
\* Config.SELF_IMPROVE_EVERY_N_CYCLES
SELF_IMPROVE_EVERY_N_CYCLES == 5
\* the period of _print_status in Orchestrator.run: cycle_count % 5
StatusEvery == 5

(* Bounds of the model *)

\* Config.MAX_QUEUE_SIZE (SKY_MAX_QUEUE_SIZE) in Spec and SpecSub
QueueSize == 1
\* retry tasks (routed sends, resends included) explored by Spec
MaxTasks == 2
\* iterations of adjust_queue_sizes explored by Spec
MaxTicks == 1
\* retry tasks explored by SpecSub
SubTasks == 2
\* calls of subscribe explored by SpecSub
MaxSubs == 2
\* Config.MAX_QUEUE_SIZE (SKY_MAX_QUEUE_SIZE) in SpecRetry
RetryQueueSize == 5
\* retry tasks explored by SpecRetry
RetryTasks == 5
\* retry tasks explored by SpecResend
ResendTasks == 3
\* calls of subscribe explored by SpecResend
ResendSubs == 1
\* Config.MAX_QUEUE_SIZE (SKY_MAX_QUEUE_SIZE) in SpecMonitor
MonitorQueueSize == 2
\* producer sends explored by SpecMonitor
MonitorSends == 7
\* iterations of adjust_queue_sizes explored by SpecMonitor
MonitorTicks == 6
\* Config.MAX_QUEUE_SIZE in SpecAdjust
AdjustQueueSize == 1
\* Config.MAX_QUEUE_SIZE in SpecApi
ApiQueueSize == 2
\* Config.MAX_QUEUE_SIZE in SpecPressure
PressureQueueSize == 2
\* retry tasks explored by SpecPressure
PressureTasks == 2
\* retry tasks explored by SpecApi
ApiTasks == 3
\* largest limit passed to get_history in SpecApi
MaxLimit == 3
\* iterations of adjust_queue_sizes explored by SpecAdjust
AdjustTicks == 10
\* rounds of the Orchestrator explored by SpecOrch
MaxRounds == 6
\* rounds of the Orchestrator explored by SpecHooks
HookRounds == 3
\* post-cycle hooks registered in SpecHooks
HooksRegistered == 2
\* post-cycle hooks registered in SpecOrch
MaxHooks == 1

---------------------------------------------------------------------------
(* Data *)

\* the receivers with a queue: the keys of MessageBus._queues
Receivers == {"pm", "irgat"}

MsgTypes == {"task_assign", "status_update"}

Handlers == {"h1", "h2"}

\* the Message values; MsgC is addressed to a receiver without a queue
MsgA == [id |-> "a", sender |-> "pm", receiver |-> "irgat",
         msg_type |-> "task_assign", payload |-> "x"]
MsgB == [id |-> "b", sender |-> "pm", receiver |-> "irgat",
         msg_type |-> "status_update", payload |-> "y"]
MsgC == [id |-> "c", sender |-> "irgat", receiver |-> "web",
         msg_type |-> "task_assign", payload |-> "z"]

MsgD == [id |-> "d", sender |-> "pm", receiver |-> "irgat",
         msg_type |-> "task_assign", payload |-> "u"]
MsgE == [id |-> "e", sender |-> "pm", receiver |-> "irgat",
         msg_type |-> "status_update", payload |-> "v"]

Messages == {MsgA, MsgB, MsgC, MsgD, MsgE}

MsgIds == {m.id : m \in Messages}

Range(s) == {s[i] : i \in 1..Len(s)}

RECURSIVE SumSeq(_)
SumSeq(s) == IF s = <<>> THEN 0 ELSE Head(s) + SumSeq(Tail(s))

Min(a, b) == IF a < b THEN a ELSE b
Max(a, b) == IF a > b THEN a ELSE b

---------------------------------------------------------------------------
(* ResizableQueue *)

\* a full() that is off by one
FullOffByOne(r) == maxsize[r] > 0 /\ Len(queues[r]) > maxsize[r]

\* asyncio.Queue.full() as _handle_backpressure reads it: a maxsize <= 0 is
\* an unbounded queue
Full(r) == maxsize[r] > 0 /\ Len(queues[r]) >= maxsize[r]

\* record_load: append to a deque(maxlen=LoadWindow)
RecordLoad(w, n) ==
    IF Len(w) >= LoadWindow THEN Append(Tail(w), n) ELSE Append(w, n)

\* average_load() > maxsize * 0.8, in integers
AboveHighWater(w, cap) == 10 * SumSeq(w) > 8 * cap * Len(w)

\* a low-water mark at half of the capacity
BelowLowWaterHalf(w, cap) == 10 * SumSeq(w) < 5 * cap * Len(w)

\* average_load() < maxsize * 0.2, in integers
BelowLowWater(w, cap) == 10 * SumSeq(w) < 2 * cap * Len(w)

\* growth that doubles without looking at the ceiling
AdjustedNoCeiling(w, cap) ==
    IF AboveHighWater(w, cap)
    THEN cap * 2
    ELSE IF BelowLowWater(w, cap) /\ cap > MAX_QUEUE_SIZE
         THEN Max(cap \div 2, MAX_QUEUE_SIZE)
         ELSE cap

\* the capacity adjust_queue_sizes leaves a queue with, given the window
\* after record_load
Adjusted(w, cap) ==
    IF AboveHighWater(w, cap)
    THEN Min(cap * 2, MAX_QUEUE_SIZE * CeilingFactor)
    ELSE IF BelowLowWater(w, cap) /\ cap > MAX_QUEUE_SIZE
         THEN Max(cap \div 2, MAX_QUEUE_SIZE)
         ELSE cap

---------------------------------------------------------------------------
(* MessageBus.send *)

\* an acknowledge that flips the Event of the record
AckSetToggle(ev, id) ==
    IF acks[id] # 0 THEN [ev EXCEPT ![acks[id]] = ~@] ELSE ev

\* acknowledge(message_id): set the Event of the entry, if there is one
AckSet(ev, id) ==
    IF acks[id] # 0 THEN [ev EXCEPT ![acks[id]] = TRUE] ELSE ev

\* handler tasks created only for a message that was routed to a queue
FiredIfRouted(m) ==
    IF m.receiver \in Receivers
    THEN [i \in 1..Len(handlers[m.msg_type]) |->
            [handler |-> handlers[m.msg_type][i], msg |-> m, st |-> "pending"]]
    ELSE <<>>

\* the handler tasks send creates for message m: one per handler subscribed
\* to m.msg_type, in subscription order
Fired(m) ==
    [i \in 1..Len(handlers[m.msg_type]) |->
        [handler |-> handlers[m.msg_type][i], msg |-> m, st |-> "pending"]]

\* a put of a rebuilt copy that loses the payload
EnqueuedCopy(m) == [m EXCEPT !.payload = "none"]

\* the message _handle_backpressure puts on the queue
Enqueued(m) == m

\* the retry task send creates for a routed message; origin is 0 when a
\* producer called send and the calling task's index for a resend
NewTask(m, origin) ==
    [msg |-> m, attempt |-> 0, pc |-> "created", ev |-> 0, origin |-> origin]

\* send once the queue has space: the put, the new Event stored under the
\* message id, the retry task, the handler tasks.  supNow is the task list
\* with the caller's own step applied.
Deliver(m, supNow, origin) ==
    /\ budget.tasks > 0
    /\ budget' = [budget EXCEPT !.tasks = @ - 1]
    /\ queues' = [queues EXCEPT ![m.receiver] = Append(@, Enqueued(m))]
    /\ events' = Append(events, FALSE)
    /\ acks' = [acks EXCEPT ![m.id] = Len(events) + 1]
    /\ sup' = Append(supNow, NewTask(m, origin))
    /\ htasks' = htasks \o Fired(m)

\* a producer calls send with its next message: the history entry, then
\* the await of the log
SendCall(p) ==
    /\ prod[p].pc \in {"idle", "returned"}
    /\ prod[p].todo # <<>>
    /\ history' = Append(history, Head(prod[p].todo))
    /\ prod' = [prod EXCEPT ![p] = [pc |-> "logging", msg |-> Head(prod[p].todo),
                                    waited |-> FALSE, todo |-> Tail(prod[p].todo)]]
    /\ UNCHANGED <<MAX_QUEUE_SIZE, queues, maxsize, load, handlers, acks,
                   events, sup, budget, htasks, received, orch, ret>>

\* _log_message has returned: without a queue for the receiver send only
\* fires the handlers; with a full queue it starts polling; else it delivers
SendLogged(p) ==
    /\ prod[p].pc = "logging"
    /\ IF prod[p].msg.receiver \notin Receivers
       THEN /\ htasks' = htasks \o Fired(prod[p].msg)
            /\ prod' = [prod EXCEPT ![p].pc = "returned"]
            /\ UNCHANGED <<queues, events, acks, sup, budget>>
       ELSE IF Full(prod[p].msg.receiver)
       THEN /\ prod' = [prod EXCEPT ![p].pc = "polling", ![p].waited = TRUE]
            /\ UNCHANGED <<queues, events, acks, sup, budget, htasks>>
       ELSE /\ Deliver(prod[p].msg, sup, 0)
            /\ prod' = [prod EXCEPT ![p].pc = "returned"]
    /\ UNCHANGED <<MAX_QUEUE_SIZE, maxsize, load, handlers, history,
                   received, orch, ret>>

\* a poll of _handle_backpressure finds space
SendPoll(p) ==
    /\ prod[p].pc = "polling"
    /\ ~Full(prod[p].msg.receiver)
    /\ Deliver(prod[p].msg, sup, 0)
    /\ prod' = [prod EXCEPT ![p].pc = "returned"]
    /\ UNCHANGED <<MAX_QUEUE_SIZE, maxsize, load, handlers, history,
                   received, orch, ret>>

\* the errors the log write of _log_message can end with: OSError from
\* aiofiles.open or f.write, AttributeError from message.model_dump_dict(),
\* which Message does not define, TypeError from adding "\n" to the bytes
\* that orjson's dumps returns
LogErrors == {"OSError", "AttributeError", "TypeError"}

\* except (OSError, json.JSONDecodeError) in _log_message
LogCaught(e) == e \in {"OSError", "JSONDecodeError"}

\* the log write of a producer's send ends with error e: a caught error is
\* logged and _log_message returns, any other one leaves send, which has
\* only appended to the history, and reaches the caller
SendLogError(p, e) ==
    IF LogCaught(e)
    THEN SendLogged(p)
    ELSE /\ prod[p].pc = "logging"
         /\ prod' = [prod EXCEPT ![p].pc = "raised"]
         /\ UNCHANGED <<MAX_QUEUE_SIZE, queues, maxsize, load, handlers,
                        history, acks, events, sup, budget, htasks, received,
                        orch, ret>>

---------------------------------------------------------------------------
(* MessageBus._wait_for_acknowledgment *)

\* a task that has ended, however it ended
Ended(t, how) == [t EXCEPT !.pc = how, !.attempt = 0, !.ev = 0]

\* the task starts: attempt 0 looks its Event up and waits on it; without
\* an entry the lookup raises KeyError
SupStart(s) ==
    /\ sup[s].pc = "created"
    /\ sup' = [sup EXCEPT ![s] =
                 IF acks[sup[s].msg.id] = 0
                 THEN Ended(sup[s], "crashed")
                 ELSE [sup[s] EXCEPT !.pc = "wait", !.ev = acks[sup[s].msg.id]]]
    /\ UNCHANGED <<MAX_QUEUE_SIZE, queues, maxsize, load, handlers, history,
                   acks, events, prod, budget, htasks, received, orch, ret>>

\* the Event waited on is set: the entry is deleted and the task returns;
\* without an entry the del raises KeyError
SupAcked(s) ==
    /\ sup[s].pc = "wait"
    /\ events[sup[s].ev]
    /\ IF acks[sup[s].msg.id] # 0
       THEN /\ acks' = [acks EXCEPT ![sup[s].msg.id] = 0]
            /\ sup' = [sup EXCEPT ![s] = Ended(sup[s], "done")]
       ELSE /\ acks' = acks
            /\ sup' = [sup EXCEPT ![s] = Ended(sup[s], "crashed")]
    /\ UNCHANGED <<MAX_QUEUE_SIZE, queues, maxsize, load, handlers, history,
                   events, prod, budget, htasks, received, orch, ret>>

\* the task after its wait timed out on this attempt: it backs off and
\* resends unless this was the last attempt, and then it ends
TimedOut(t) ==
    IF t.attempt < MAX_RETRIES - 1
    THEN [t EXCEPT !.pc = "backoff"]
    ELSE Ended(t, "failed")

\* wait_for times out with the Event not set
SupTimeout(s) ==
    /\ sup[s].pc = "wait"
    /\ ~events[sup[s].ev]
    /\ sup' = [sup EXCEPT ![s] = TimedOut(sup[s])]
    /\ UNCHANGED <<MAX_QUEUE_SIZE, queues, maxsize, load, handlers, history,
                   acks, events, prod, budget, htasks, received, orch, ret>>

\* the backoff sleep ends and the task calls send(message)
ResendCall(s) ==
    /\ sup[s].pc = "backoff"
    /\ history' = Append(history, sup[s].msg)
    /\ sup' = [sup EXCEPT ![s].pc = "logging"]
    /\ UNCHANGED <<MAX_QUEUE_SIZE, queues, maxsize, load, handlers, acks,
                   events, prod, budget, htasks, received, orch, ret>>

\* the task when its send has returned: the next attempt waits on the Event
\* that send has just stored
Rearmed(t) ==
    [t EXCEPT !.pc = "wait", !.attempt = t.attempt + 1, !.ev = Len(events) + 1]

\* _log_message has returned inside the task's send
ResendLogged(s) ==
    /\ sup[s].pc = "logging"
    /\ IF Full(sup[s].msg.receiver)
       THEN /\ sup' = [sup EXCEPT ![s].pc = "polling"]
            /\ UNCHANGED <<queues, events, acks, budget, htasks>>
       ELSE Deliver(sup[s].msg, [sup EXCEPT ![s] = Rearmed(sup[s])], s)
    /\ UNCHANGED <<MAX_QUEUE_SIZE, maxsize, load, handlers, history, prod,
                   received, orch, ret>>

\* a poll of _handle_backpressure finds space inside the task's send
ResendPoll(s) ==
    /\ sup[s].pc = "polling"
    /\ ~Full(sup[s].msg.receiver)
    /\ Deliver(sup[s].msg, [sup EXCEPT ![s] = Rearmed(sup[s])], s)
    /\ UNCHANGED <<MAX_QUEUE_SIZE, maxsize, load, handlers, history, prod,
                   received, orch, ret>>

\* the log write inside the task's send ends with error e: a caught error
\* lets the send go on, any other one leaves send and the task, which
\* catches asyncio.TimeoutError only
ResendLogError(s, e) ==
    IF LogCaught(e)
    THEN ResendLogged(s)
    ELSE /\ sup[s].pc = "logging"
         /\ sup' = [sup EXCEPT ![s] = Ended(sup[s], "crashed")]
         /\ UNCHANGED <<MAX_QUEUE_SIZE, queues, maxsize, load, handlers,
                        history, acks, events, prod, budget, htasks, received,
                        orch, ret>>

---------------------------------------------------------------------------
(* MessageBus.receive, receive_all, acknowledge, subscribe *)

RECURSIVE AckAll(_, _)
AckHeadOnly(ev, q) ==
    IF q = <<>> THEN ev ELSE AckSet(ev, Head(q).id)

\* acknowledge() for each message of q in turn
AckAll(ev, q) ==
    IF q = <<>> THEN ev ELSE AckAll(AckSet(ev, Head(q).id), Tail(q))

\* receive(r) with a message buffered: dequeue, acknowledge, return it
Receive(r) ==
    /\ queues[r] # <<>>
    /\ queues' = [queues EXCEPT ![r] = Tail(@)]
    /\ events' = AckSet(events, Head(queues[r]).id)
    /\ received' = [received EXCEPT ![r] = Append(@, Head(queues[r]))]
    /\ UNCHANGED <<MAX_QUEUE_SIZE, maxsize, load, handlers, history, acks,
                   sup, prod, budget, htasks, orch, ret>>

\* receive_all(r) with messages buffered: drain, acknowledging each
ReceiveAll(r) ==
    /\ queues[r] # <<>>
    /\ queues' = [queues EXCEPT ![r] = <<>>]
    /\ events' = AckAll(events, queues[r])
    /\ received' = [received EXCEPT ![r] = @ \o queues[r]]
    /\ UNCHANGED <<MAX_QUEUE_SIZE, maxsize, load, handlers, history, acks,
                   sup, prod, budget, htasks, orch, ret>>

\* acknowledge(id) called by a client for an entry not yet signalled
Acknowledge(id) ==
    /\ acks[id] # 0
    /\ ~events[acks[id]]
    /\ events' = AckSet(events, id)
    /\ UNCHANGED <<MAX_QUEUE_SIZE, queues, maxsize, load, handlers, history,
                   acks, sup, prod, budget, htasks, received, orch, ret>>

---------------------------------------------------------------------------
(* The calls of the observed client, with what they return *)

\* the receivers a client may name: those with a queue, and one without
Clients == Receivers \cup {"web"}

\* the record of a call that has returned; none: it returned None
Answer(op, arg, limit, val, none) ==
    [op |-> op, arg |-> arg, limit |-> limit, val |-> val, none |-> none,
     flip |-> ~ret.flip]

\* a receive that returns the newest buffered message
receiveNewest(r) ==
    /\ IF r \notin Receivers \/ queues[r] = <<>>
       THEN /\ ret' = Answer("receive", r, 0, <<>>, TRUE)
            /\ UNCHANGED <<queues, events, received>>
       ELSE LET m == queues[r][Len(queues[r])] IN
            /\ queues' = [queues EXCEPT ![r] = SubSeq(@, 1, Len(@) - 1)]
            /\ events' = AckSet(events, m.id)
            /\ received' = [received EXCEPT ![r] = Append(@, m)]
            /\ ret' = Answer("receive", r, 0, <<m>>, FALSE)
    /\ UNCHANGED <<MAX_QUEUE_SIZE, maxsize, load, handlers, history, acks,
                   sup, prod, budget, htasks, orch>>

\* receive(r, timeout): None for a receiver without a queue and when the
\* queue has stayed empty until the timeout; else the oldest buffered
\* message, dequeued and acknowledged
receive(r) ==
    /\ IF r \notin Receivers \/ queues[r] = <<>>
       THEN /\ ret' = Answer("receive", r, 0, <<>>, TRUE)
            /\ UNCHANGED <<queues, events, received>>
       ELSE LET m == Head(queues[r]) IN
            /\ queues' = [queues EXCEPT ![r] = Tail(@)]
            /\ events' = AckSet(events, m.id)
            /\ received' = [received EXCEPT ![r] = Append(@, m)]
            /\ ret' = Answer("receive", r, 0, <<m>>, FALSE)
    /\ UNCHANGED <<MAX_QUEUE_SIZE, maxsize, load, handlers, history, acks,
                   sup, prod, budget, htasks, orch>>

\* receive_all(r): the empty list for a receiver without a queue; else
\* every buffered message, dequeued and acknowledged in turn
receive_all(r) ==
    /\ IF r \notin Receivers
       THEN /\ ret' = Answer("receive_all", r, 0, <<>>, FALSE)
            /\ UNCHANGED <<queues, events, received>>
       ELSE /\ queues' = [queues EXCEPT ![r] = <<>>]
            /\ events' = AckAll(events, queues[r])
            /\ received' = [received EXCEPT ![r] = @ \o queues[r]]
            /\ ret' = Answer("receive_all", r, 0, queues[r], FALSE)
    /\ UNCHANGED <<MAX_QUEUE_SIZE, maxsize, load, handlers, history, acks,
                   sup, prod, budget, htasks, orch>>

\* acknowledge(id): set the Event of the id if it has a record
acknowledge(id) ==
    /\ events' = AckSet(events, id)
    /\ ret' = Answer("acknowledge", id, 0, <<>>, TRUE)
    /\ UNCHANGED <<MAX_QUEUE_SIZE, queues, maxsize, load, handlers, history,
                   acks, sup, prod, budget, htasks, received, orch>>

\* self._history[-limit:] for limit >= 0: the last limit messages, and,
\* -0 being 0, the whole list for limit 0
HistorySlice(h, limit) ==
    IF limit = 0 THEN h ELSE SubSeq(h, Max(1, Len(h) - limit + 1), Len(h))

\* get_history(limit)
get_history(limit) ==
    /\ ret' = Answer("get_history", "", limit, HistorySlice(history, limit), FALSE)
    /\ UNCHANGED <<MAX_QUEUE_SIZE, queues, maxsize, load, handlers, history,
                   acks, events, sup, prod, budget, htasks, received, orch>>

---------------------------------------------------------------------------
(* MessageBus.subscribe and the handler tasks *)

\* subscribe(t, h)
Subscribe(t, h) ==
    /\ budget.subs > 0
    /\ budget' = [budget EXCEPT !.subs = @ - 1]
    /\ handlers' = [handlers EXCEPT ![t] = Append(@, h)]
    /\ UNCHANGED <<MAX_QUEUE_SIZE, queues, maxsize, load, history, acks,
                   events, sup, prod, htasks, received, orch, ret>>

\* handler tasks run as a group that a failure cancels
HandlerOutcomeGrouped(i, st) ==
    [j \in 1..Len(htasks) |->
        IF j = i THEN [htasks[j] EXCEPT !.st = st]
        ELSE IF st = "raised" /\ htasks[j].msg = htasks[i].msg
                 /\ htasks[j].st = "pending"
             THEN [htasks[j] EXCEPT !.st = "cancelled"]
             ELSE htasks[j]]

\* the handler tasks after task i has run and returned or raised: the tasks
\* are independent (asyncio.create_task), nobody awaits them
HandlerOutcome(i, st) == [htasks EXCEPT ![i].st = st]

\* a handler task runs, and returns or raises
HandlerRun(i, st) ==
    /\ htasks[i].st = "pending"
    /\ htasks' = HandlerOutcome(i, st)
    /\ UNCHANGED <<MAX_QUEUE_SIZE, queues, maxsize, load, handlers, history,
                   acks, events, sup, prod, budget, received, orch, ret>>

---------------------------------------------------------------------------
(* MessageBus.adjust_queue_sizes *)

\* an iteration whose resize cuts a queue down to its new capacity
TickTruncates ==
    /\ budget.ticks > 0
    /\ budget' = [budget EXCEPT !.ticks = @ - 1]
    /\ load' = [r \in Receivers |-> RecordLoad(load[r], Len(queues[r]))]
    /\ maxsize' = [r \in Receivers |->
                     Adjusted(RecordLoad(load[r], Len(queues[r])), maxsize[r])]
    /\ queues' = [r \in Receivers |->
                    SubSeq(queues[r], 1, Min(Len(queues[r]), maxsize'[r]))]
    /\ UNCHANGED <<MAX_QUEUE_SIZE, handlers, history, acks, events,
                   sup, prod, htasks, received, orch, ret>>

\* one iteration: every queue records its depth and is resized
Tick ==
    /\ budget.ticks > 0
    /\ budget' = [budget EXCEPT !.ticks = @ - 1]
    /\ load' = [r \in Receivers |-> RecordLoad(load[r], Len(queues[r]))]
    /\ maxsize' = [r \in Receivers |->
                     Adjusted(RecordLoad(load[r], Len(queues[r])), maxsize[r])]
    /\ UNCHANGED <<MAX_QUEUE_SIZE, queues, handlers, history, acks, events,
                   sup, prod, htasks, received, orch, ret>>

\* the sends and receives of the minute between two iterations of
\* adjust_queue_sizes, by their effect on one queue: they leave it with d
\* messages, no more than it may hold
Traffic(r, d) ==
    /\ d # Len(queues[r])
    /\ maxsize[r] > 0 => d <= Max(maxsize[r], Len(queues[r]))
    /\ queues' = [queues EXCEPT ![r] = [i \in 1..d |-> MsgA]]
    /\ UNCHANGED <<MAX_QUEUE_SIZE, maxsize, load, handlers, history, acks,
                   events, sup, prod, budget, htasks, received, orch, ret>>

---------------------------------------------------------------------------
(* The bus: MessageBus.__init__ and its tasks *)

\* no call of the observed client has returned yet
NoAnswer ==
    [op |-> "none", arg |-> "", limit |-> 0, val |-> <<>>, none |-> FALSE,
     flip |-> FALSE]

\* the bus after construction, with base as Config.MAX_QUEUE_SIZE, todo as
\* the messages each producer is to send, and b as what is to be explored
InitBus(base, todo, b) ==
    /\ MAX_QUEUE_SIZE = base
    /\ queues = [r \in Receivers |-> <<>>]
    /\ maxsize = [r \in Receivers |-> base]
    /\ load = [r \in Receivers |-> <<>>]
    /\ handlers = [t \in MsgTypes |-> <<>>]
    /\ history = <<>>
    /\ acks = [i \in MsgIds |-> 0]
    /\ events = <<>>
    /\ sup = <<>>
    /\ prod = [p \in DOMAIN todo |->
                 [pc |-> "idle", msg |-> MsgA, waited |-> FALSE, todo |-> todo[p]]]
    /\ budget = b
    /\ htasks = <<>>
    /\ received = [r \in Receivers |-> <<>>]
    /\ ret = NoAnswer

---------------------------------------------------------------------------
(* The Orchestrator *)

\* the two awaits of _run_cycle exchanged
CycleOrderSwapped == <<"irgat", "pm">>

\* the agents, in the order _run_cycle awaits their run_cycle
CycleOrder == <<"pm", "irgat">>

CycleHooks == {"k1", "k2"}

Outcomes == {"ok", "raised"}

\* the Orchestrator after construction; tg: a telegram bot is attached.
\* log holds the agent calls of the current (or last) round, fired the
\* hook calls of the last hook pass, stamp the round that last set
\* state.last_cycle_at; quota and hookQuota are the rounds and the hook
\* registrations to explore
OrchWith(tg, rounds, hooks) ==
    [mode |-> "none", pc |-> "idle", running |-> FALSE, paused |-> FALSE,
     telegram |-> tg, stopped |-> FALSE, cycle_count |-> 0, stamp |-> 0,
     rounds |-> 0, idx |-> 0, log |-> <<>>, hooks |-> <<>>, hk |-> 0,
     fired |-> <<>>, maint |-> 0, cancelled |-> FALSE,
     quota |-> rounds, hookQuota |-> hooks]

OrchIdle(tg) == OrchWith(tg, MaxRounds, MaxHooks)

InitOrchIdle == orch = OrchIdle(FALSE)

\* _run_cycle up to its first await: the first agent's run_cycle is called
BeginRound(o) ==
    [o EXCEPT !.pc = "agent", !.idx = 1, !.rounds = @ + 1,
              !.log = <<[agent |-> CycleOrder[1], ev |-> "call"]>>]

\* an exception in a round ends the loop of run()
RoundRaisedEndsLoop(o) ==
    IF o.mode = "run"
    THEN [o EXCEPT !.pc = "stopping", !.idx = 0]
    ELSE [o EXCEPT !.pc = "idle", !.mode = "none", !.idx = 0]

\* an exception leaves the round: run() catches it and sleeps,
\* run_single_cycle lets it reach its caller
RoundRaised(o) ==
    IF o.mode = "run"
    THEN [o EXCEPT !.pc = "err_sleep", !.idx = 0]
    ELSE [o EXCEPT !.pc = "idle", !.mode = "none", !.idx = 0]

add_cycle_hook(h) ==
    /\ Len(orch.hooks) < orch.hookQuota
    /\ orch' = [orch EXCEPT !.hooks = Append(@, h)]
    /\ UNCHANGED busVars

pause ==
    /\ ~orch.paused
    /\ orch' = [orch EXCEPT !.paused = TRUE]
    /\ UNCHANGED busVars

resume ==
    /\ orch.paused
    /\ orch' = [orch EXCEPT !.paused = FALSE]
    /\ UNCHANGED busVars

\* a signal handler that also abandons the round in progress
ShutdownAbandons ==
    /\ orch.running
    /\ orch' = [orch EXCEPT !.running = FALSE,
                  !.pc = IF orch.mode = "run" /\ orch.pc \in {"agent", "tally"}
                         THEN "stopping" ELSE @]
    /\ UNCHANGED busVars

\* the signal handler
Shutdown ==
    /\ orch.running
    /\ orch' = [orch EXCEPT !.running = FALSE]
    /\ UNCHANGED busVars

\* run() up to its loop; the start of the bot or the indexing may raise
Run(out) ==
    /\ orch.mode = "none"
    /\ orch' = [orch EXCEPT !.mode = "run", !.running = TRUE,
                            !.pc = IF out = "ok" THEN "top" ELSE "raised"]
    /\ UNCHANGED busVars

\* a loop head that does not look at the pause flag
LoopTopIgnoresPause ==
    /\ orch.mode = "run"
    /\ orch.pc = "top"
    /\ orch.running => orch.rounds < orch.quota
    /\ orch' = IF ~orch.running THEN [orch EXCEPT !.pc = "stopping"]
               ELSE BeginRound(orch)
    /\ UNCHANGED busVars

\* the head of the loop of run(): leave it, sleep while paused, or start
\* a round
LoopTop ==
    /\ orch.mode = "run"
    /\ orch.pc = "top"
    /\ (orch.running /\ ~orch.paused) => orch.rounds < orch.quota
    /\ orch' = IF ~orch.running THEN [orch EXCEPT !.pc = "stopping"]
               ELSE IF orch.paused THEN [orch EXCEPT !.pc = "pause_sleep"]
               ELSE BeginRound(orch)
    /\ UNCHANGED busVars

\* a sleep of run() ends: the paused sleep, the sleep between cycles, the
\* sleep after a failed round
Wake ==
    /\ orch.pc \in {"pause_sleep", "sleep", "err_sleep"}
    /\ orch' = [orch EXCEPT !.pc = "top"]
    /\ UNCHANGED busVars

run_single_cycle ==
    /\ orch.mode = "none"
    /\ orch.rounds < orch.quota
    /\ orch' = BeginRound([orch EXCEPT !.mode = "single"])
    /\ UNCHANGED busVars

\* the run_cycle of the current agent returns or raises; after a return
\* the next agent's run_cycle is called, after the last one the completed
\* tasks are fetched
AgentReturns(out) ==
    /\ orch.pc = "agent"
    /\ LET a == CycleOrder[orch.idx]
           ended == [orch EXCEPT !.log = Append(@, [agent |-> a,
                        ev |-> IF out = "ok" THEN "ret" ELSE "raise"])]
       IN  orch' = IF out = "raised" THEN RoundRaised(ended)
                   ELSE IF orch.idx < Len(CycleOrder)
                        THEN [ended EXCEPT !.idx = @ + 1,
                                !.log = Append(@, [agent |-> CycleOrder[orch.idx + 1],
                                                   ev |-> "call"])]
                        ELSE [ended EXCEPT !.pc = "tally", !.idx = 0]
    /\ UNCHANGED busVars

\* a round that is counted by run_single_cycle as well
TallyCountsSingle(out) ==
    /\ orch.pc = "tally"
    /\ orch' = IF out = "raised" THEN RoundRaised(orch)
               ELSE IF orch.mode = "run"
                    THEN [orch EXCEPT !.cycle_count = @ + 1, !.stamp = orch.rounds,
                                      !.pc = "hooks", !.hk = 1, !.fired = <<>>]
                    ELSE [orch EXCEPT !.cycle_count = @ + 1, !.stamp = orch.rounds,
                                      !.pc = "idle", !.mode = "none"]
    /\ UNCHANGED busVars

\* task_store.get_completed() returns or raises, the counters of the state
\* are updated and _run_cycle returns; run() then counts the cycle and
\* starts the hook pass
Tally(out) ==
    /\ orch.pc = "tally"
    /\ orch' = IF out = "raised" THEN RoundRaised(orch)
               ELSE IF orch.mode = "run"
                    THEN [orch EXCEPT !.cycle_count = @ + 1, !.stamp = orch.rounds,
                                      !.pc = "hooks", !.hk = 1, !.fired = <<>>]
                    ELSE [orch EXCEPT !.pc = "idle", !.mode = "none"]
    /\ UNCHANGED busVars

\* a hook pass that a raising hook ends
HookReturnsAborts(out) ==
    /\ orch.pc = "hooks"
    /\ orch.hk <= Len(orch.hooks)
    /\ orch' = [orch EXCEPT !.hk = IF out = "raised" THEN Len(orch.hooks) + 1
                                   ELSE @ + 1,
                  !.fired = Append(@, [hook |-> orch.hooks[orch.hk],
                                       n |-> orch.cycle_count,
                                       result |-> orch.rounds, out |-> out])]
    /\ UNCHANGED busVars

\* _fire_cycle_hooks: the next hook is called with the cycle number and the
\* result of the round (named here by the round) and returns or raises;
\* the exception is caught and logged
HookReturns(out) ==
    /\ orch.pc = "hooks"
    /\ orch.hk <= Len(orch.hooks)
    /\ orch' = [orch EXCEPT !.hk = @ + 1,
                  !.fired = Append(@, [hook |-> orch.hooks[orch.hk],
                                       n |-> orch.cycle_count,
                                       result |-> orch.rounds, out |-> out])]
    /\ UNCHANGED busVars

HooksDone ==
    /\ orch.pc = "hooks"
    /\ orch.hk > Len(orch.hooks)
    /\ orch' = [orch EXCEPT !.pc = "report", !.hk = 0]
    /\ UNCHANGED busVars

\* the cycle report of the bot or the status table is awaited this cycle
Reports(o) == o.telegram \/ o.cycle_count % StatusEvery = 0

\* the report and the status table; then the maintenance pass is due or
\* the sleep between cycles starts
Report(out) ==
    /\ orch.pc = "report"
    /\ out = "raised" => Reports(orch)
    /\ orch' = IF out = "raised" THEN RoundRaised(orch)
               ELSE IF orch.cycle_count % SELF_IMPROVE_EVERY_N_CYCLES = 0
                    THEN [orch EXCEPT !.pc = "maintain"]
                    ELSE [orch EXCEPT !.pc = "sleep"]
    /\ UNCHANGED busVars

\* the maintenance pass: review, refinement and re-indexing
Maintain(out) ==
    /\ orch.pc = "maintain"
    /\ orch' = IF out = "raised" THEN RoundRaised(orch)
               ELSE [orch EXCEPT !.pc = "sleep", !.maint = @ + 1]
    /\ UNCHANGED busVars

\* run() is suspended at an await
Awaiting(o) ==
    \/ o.pc \in {"agent", "tally", "maintain", "sleep", "pause_sleep", "err_sleep"}
    \/ o.pc = "hooks" /\ o.hk <= Len(o.hooks)
    \/ o.pc = "report" /\ Reports(o)
    \/ o.pc = "stopping" /\ o.telegram

\* the task of run() is cancelled: inside the try the loop is left, at
\* the other awaits CancelledError leaves run()
Cancel ==
    /\ orch.mode = "run"
    /\ ~orch.cancelled
    /\ Awaiting(orch)
    /\ orch' = [orch EXCEPT !.cancelled = TRUE, !.idx = 0,
                  !.pc = IF orch.pc \in {"pause_sleep", "err_sleep", "stopping"}
                         THEN "cancelled" ELSE "stopping"]
    /\ UNCHANGED busVars

\* after the loop: the bot is stopped and run() returns
Stop ==
    /\ orch.pc = "stopping"
    /\ orch' = [orch EXCEPT !.pc = "returned", !.stopped = orch.telegram]
    /\ UNCHANGED busVars

---------------------------------------------------------------------------
(* Scenarios *)

\* no retry task has a step to take at once: none is yet to start, none
\* waits on an Event that is set
Settled ==
    \A s \in 1..Len(sup) :
        /\ sup[s].pc # "created"
        /\ sup[s].pc = "wait" => ~events[sup[s].ev]

\* the callers of send
Producing ==
    \/ \E p \in DOMAIN prod : SendCall(p)
    \/ \E p \in DOMAIN prod : SendLogged(p)
    \/ \E p \in DOMAIN prod : SendPoll(p)

\* the retry tasks until their wait ends
Waiting ==
    \/ \E s \in 1..Len(sup) : SupStart(s)
    \/ \E s \in 1..Len(sup) : SupAcked(s)

\* the retry tasks from a timeout on
Retrying ==
    \/ \E s \in 1..Len(sup) : SupTimeout(s)
    \/ \E s \in 1..Len(sup) : ResendCall(s)
    \/ \E s \in 1..Len(sup) : ResendLogged(s)
    \/ \E s \in 1..Len(sup) : ResendPoll(s)

\* the consumers, and the clients that acknowledge by id
Consuming ==
    \/ \E r \in Receivers : Receive(r)
    \/ \E r \in Receivers : ReceiveAll(r)
    \/ \E id \in MsgIds : Acknowledge(id)

\* the subscribers and the handler tasks
Subscribing ==
    \/ \E t \in MsgTypes, h \in Handlers : Subscribe(t, h)
    \/ \E i \in 1..Len(htasks), st \in {"ok", "raised"} : HandlerRun(i, st)

(* Spec: delivery.  Capacity 1, a producer sending MsgA and one sending
   MsgB, the retry tasks, the consumers and the monitor. *)

NextBus == Producing \/ Waiting \/ Retrying \/ Consuming \/ Tick

Init ==
    /\ InitBus(QueueSize, [p \in {"p1", "p2"} |-> IF p = "p1" THEN <<MsgA>> ELSE <<MsgB>>],
               [tasks |-> MaxTasks, ticks |-> MaxTicks, subs |-> 0])
    /\ InitOrchIdle

Spec == Init /\ [][NextBus]_vars

(* SpecFault: Spec with log writes that fail, in the sends of the
   producers and in the resends of the retry tasks. *)

NextFault ==
    \/ NextBus
    \/ \E p \in DOMAIN prod, e \in LogErrors : SendLogError(p, e)
    \/ \E s \in 1..Len(sup), e \in LogErrors : ResendLogError(s, e)

SpecFault == Init /\ [][NextFault]_vars

(* SpecSub: subscribers.  Capacity 1, one producer sending MsgC (no queue)
   and then MsgA and MsgB (routed), a consumer, the subscribers and the
   handler tasks, and the retry tasks, whose waits do not time out while
   the handlers run. *)

NextSub ==
    \/ Producing \/ Waiting \/ Subscribing
    \/ \E r \in Receivers : Receive(r)

InitSub ==
    /\ InitBus(QueueSize, [p \in {"p1"} |-> <<MsgC, MsgA, MsgB>>],
               [tasks |-> SubTasks, ticks |-> 0, subs |-> MaxSubs])
    /\ InitOrchIdle

SpecSub == InitSub /\ [][NextSub]_vars

(* SpecRetry: a message nobody receives.  One producer sending MsgA once,
   a queue large enough for the copies, and the retry tasks.  No Event is
   ever set and no room is ever made, so that no wait returns and the
   polls of a full queue go on sleeping. *)

NextRetry ==
    \/ \E p \in DOMAIN prod : SendCall(p)
    \/ \E p \in DOMAIN prod : SendLogged(p)
    \/ \E s \in 1..Len(sup) : SupStart(s)
    \/ \E s \in 1..Len(sup) : SupTimeout(s)
    \/ \E s \in 1..Len(sup) : ResendCall(s)
    \/ \E s \in 1..Len(sup) : ResendLogged(s)

InitRetry ==
    /\ InitBus(RetryQueueSize, [p \in {"p1"} |-> <<MsgA>>],
               [tasks |-> RetryTasks, ticks |-> 0, subs |-> 0])
    /\ InitOrchIdle

SpecRetry == InitRetry /\ [][NextRetry]_vars

(* SpecResend: SpecRetry with a subscriber.  One producer sending MsgA
   once, which nobody receives, the retry tasks, a subscription and the
   handler tasks. *)

NextResend == NextRetry \/ Subscribing

InitResend ==
    /\ InitBus(RetryQueueSize, [p \in {"p1"} |-> <<MsgA>>],
               [tasks |-> ResendTasks, ticks |-> 0, subs |-> ResendSubs])
    /\ InitOrchIdle

SpecResend == InitResend /\ [][NextResend]_vars

(* SpecMonitor: the load monitor.  One producer sending a series of
   messages, a consumer draining the queue, the monitor, and the retry
   tasks, which start and see their acknowledgments before the next send,
   drain or monitor iteration (no wait lasts long enough to time out). *)

NextMonitor ==
    \/ Waiting
    \/ Settled /\ Producing
    \/ Settled /\ Tick
    \/ Settled /\ \E r \in Receivers : ReceiveAll(r)

\* the first n of the messages the producer of SpecMonitor sends
MonitorSeries(n) == SubSeq(<<MsgA, MsgB, MsgD, MsgE, MsgA, MsgB, MsgD, MsgE>>, 1, n)

InitMonitor ==
    /\ InitBus(MonitorQueueSize, [p \in {"p1"} |-> MonitorSeries(MonitorSends)],
               [tasks |-> MonitorSends, ticks |-> MonitorTicks, subs |-> 0])
    /\ InitOrchIdle

SpecMonitor == InitMonitor /\ [][NextMonitor]_vars

(* SpecAdjust: the load monitor under any load.  Between two iterations
   of adjust_queue_sizes the traffic leaves the irgat queue at any depth
   within its capacity. *)

NextAdjust ==
    \/ Tick
    \/ \E d \in 0..(AdjustQueueSize * CeilingFactor) : Traffic("irgat", d)

InitAdjust ==
    /\ InitBus(AdjustQueueSize, [p \in {"p1"} |-> <<>>],
               [tasks |-> 0, ticks |-> AdjustTicks, subs |-> 0])
    /\ InitOrchIdle

SpecAdjust == InitAdjust /\ [][NextAdjust]_vars

(* SpecPressure: backpressure under load.  Capacity 2; two producers, one
   sending MsgB and one MsgD to irgat, whose steps are taken whenever they
   stay possible (a poll of a queue that keeps its room finds the room);
   the receiver and the other producers of irgat, by what they do to the
   depth of its queue; the retry tasks up to their wait. *)

\* producer p's send takes a step
SendStep(p) == SendCall(p) \/ SendLogged(p) \/ SendPoll(p)

NextPressure ==
    \/ \E p \in DOMAIN prod : SendStep(p)
    \/ \E s \in 1..Len(sup) : SupStart(s)
    \/ \E d \in 0..PressureQueueSize : Traffic("irgat", d)

InitPressure ==
    /\ InitBus(PressureQueueSize,
               [p \in {"p1", "p2"} |-> IF p = "p1" THEN <<MsgB>> ELSE <<MsgD>>],
               [tasks |-> PressureTasks, ticks |-> 0, subs |-> 0])
    /\ InitOrchIdle

SpecPressure ==
    /\ InitPressure
    /\ [][NextPressure]_vars
    /\ \A p \in {"p1", "p2"} : WF_vars(SendStep(p))

(* SpecApi: the calls of a client.  Capacity 2, one producer sending
   MsgA, MsgB and MsgD to irgat, the retry tasks, whose waits do not time
   out, and a client calling receive, receive_all, acknowledge and
   get_history. *)

NextApi ==
    \/ Producing
    \/ Waiting
    \/ \E r \in Clients : receive(r)
    \/ \E r \in Clients : receive_all(r)
    \/ \E id \in MsgIds : acknowledge(id)
    \/ \E limit \in 0..MaxLimit : get_history(limit)

InitApi ==
    /\ InitBus(ApiQueueSize, [p \in {"p1"} |-> <<MsgA, MsgB, MsgD>>],
               [tasks |-> ApiTasks, ticks |-> 0, subs |-> 0])
    /\ InitOrchIdle

SpecApi == InitApi /\ [][NextApi]_vars

(* SpecOrch: the Orchestrator with its agents, hooks, pause, resume,
   shutdown and cancellation; the bus is idle. *)

NextOrch ==
    \/ \E out \in Outcomes : Run(out)
    \/ run_single_cycle
    \/ LoopTop
    \/ Wake
    \/ \E out \in Outcomes : AgentReturns(out)
    \/ \E out \in Outcomes : Tally(out)
    \/ \E out \in Outcomes : HookReturns(out)
    \/ HooksDone
    \/ \E out \in Outcomes : Report(out)
    \/ \E out \in Outcomes : Maintain(out)
    \/ Stop
    \/ Shutdown
    \/ Cancel
    \/ pause
    \/ resume
    \/ \E h \in CycleHooks : add_cycle_hook(h)

InitOrch ==
    /\ InitBus(QueueSize, [p \in {"p1"} |-> <<>>],
               [tasks |-> 0, ticks |-> 0, subs |-> 0])
    /\ \E tg \in BOOLEAN : orch = OrchIdle(tg)

SpecOrch == InitOrch /\ [][NextOrch]_vars

(* SpecHooks: the post-cycle hooks.  Up to two registrations, at any
   moment, also during a hook pass; run() with its agents, shutdown and
   cancellation. *)

NextHooks ==
    \/ \E out \in Outcomes : Run(out)
    \/ LoopTop
    \/ Wake
    \/ \E out \in Outcomes : AgentReturns(out)
    \/ \E out \in Outcomes : Tally(out)
    \/ \E out \in Outcomes : HookReturns(out)
    \/ HooksDone
    \/ \E out \in Outcomes : Report(out)
    \/ Stop
    \/ Shutdown
    \/ Cancel
    \/ \E h \in CycleHooks : add_cycle_hook(h)

InitHooks ==
    /\ InitBus(QueueSize, [p \in {"p1"} |-> <<>>],
               [tasks |-> 0, ticks |-> 0, subs |-> 0])
    /\ \E tg \in BOOLEAN : orch = OrchWith(tg, HookRounds, HooksRegistered)

SpecHooks == InitHooks /\ [][NextHooks]_vars

\* the steps run() takes by itself: every sleep ends and every awaited
\* call returns or raises
LoopStep ==
    \/ LoopTop
    \/ Wake
    \/ \E out \in Outcomes : AgentReturns(out)
    \/ \E out \in Outcomes : Tally(out)
    \/ \E out \in Outcomes : HookReturns(out)
    \/ HooksDone
    \/ \E out \in Outcomes : Report(out)
    \/ \E out \in Outcomes : Maintain(out)
    \/ Stop

(* SpecOrchLive: SpecOrch with the event loop scheduling run() whenever
   it has a step to take. *)

SpecOrchLive == InitOrch /\ [][NextOrch]_vars /\ WF_vars(LoopStep)

---------------------------------------------------------------------------
(* Properties of delivery, checked under Spec *)

\* the first place of m in the sequence q, 0 when it is not there
RECURSIVE Pos(_, _)
Pos(q, m) ==
    IF q = <<>> THEN 0
    ELSE IF Head(q) = m THEN 1
    ELSE IF Pos(Tail(q), m) = 0 THEN 0 ELSE 1 + Pos(Tail(q), m)

\* no wait for an acknowledgment has timed out so far
NoAckTimeout ==
    \A s \in 1..Len(sup) :
        /\ sup[s].origin = 0
        /\ sup[s].attempt = 0
        /\ sup[s].pc \in {"created", "wait", "done", "crashed"}

\* the queue of receiver r has room for one more message
HasSpace(r) == maxsize[r] <= 0 \/ Len(queues[r]) < maxsize[r]

\* producer p's send returns in this step
SendReturns(p) ==
    prod[p].pc \in {"logging", "polling"} /\ prod'[p].pc = "returned"

\* retry task s's send (a resend) returns in this step
ResendReturns(s) ==
    sup[s].pc \in {"logging", "polling"} /\ sup'[s].pc = "wait"

\* the task whose producer-sent message task s retries
RECURSIVE Root(_)
Root(s) == IF sup[s].origin = 0 THEN s ELSE Root(sup[s].origin)

\* C1: messages to the same receiver are received in the order in which
\* send was called for them, as long as no acknowledgment wait timed out:
\* a message is never returned by receive while one whose send was called
\* earlier has not been returned yet.
C1_CallOrderFifo ==
    NoAckTimeout =>
        \A i, j \in 1..Len(history) :
            (/\ i < j
             /\ history[i].receiver \in Receivers
             /\ history[i].receiver = history[j].receiver
             /\ Pos(received[history[j].receiver], history[j]) # 0)
            => /\ Pos(received[history[i].receiver], history[i]) # 0
               /\ Pos(received[history[i].receiver], history[i])
                    < Pos(received[history[j].receiver], history[j])

C5_AckDisarmsRetry ==
    [][\A s \in 1..Len(sup) :
          ResendReturns(s)
            => /\ sup[s].msg \notin Range(received[sup[s].msg.receiver])
               /\ ~events[sup[s].ev]
      ]_vars

\* C7: a resend appends to the queue of the message's receiver the very
\* message the producer sent (the retried task's message, unchanged), and
\* the task waits again.
C7_ResendIdentical ==
    [][\A s \in 1..Len(sup) :
          ResendReturns(s)
            => /\ sup[s].msg = sup[Root(s)].msg
               /\ sup[s].msg \in Range(history)
               /\ queues'[sup[s].msg.receiver]
                    = Append(queues[sup[s].msg.receiver], sup[Root(s)].msg)
               /\ sup'[Len(sup')].msg = sup[s].msg
      ]_vars

\* a message was resent after a timeout, and receive returned its id later
C7_Witness ==
    \E s \in 1..Len(sup) :
        /\ sup[s].origin # 0
        /\ sup[sup[s].origin].pc = "wait"
        /\ events[s]
        /\ \E i \in 1..Len(received["irgat"]) :
              received["irgat"][i].id = sup[s].msg.id

---------------------------------------------------------------------------
(* Properties of the retry protocol, checked under SpecRetry *)

\* the resends of the message with this id: the retry tasks a resend made
ResendCount(id) ==
    Cardinality({s \in 1..Len(sup) : sup[s].msg.id = id /\ sup[s].origin # 0})

\* the message with this id was never received nor acknowledged
NeverAcked(id) ==
    /\ \A r \in Receivers : \A i \in 1..Len(received[r]) : received[r][i].id # id
    /\ \A s \in 1..Len(sup) : sup[s].msg.id = id => ~events[s]

\* C4: a message that is never received or acknowledged is re-enqueued at
\* most MAX_RETRIES times, and exactly MAX_RETRIES times once the task of
\* the producer's send has given up.
C4_ExactlyMaxRetries ==
    \A id \in MsgIds :
        NeverAcked(id) =>
            /\ ResendCount(id) <= MAX_RETRIES
            /\ \A s \in 1..Len(sup) :
                  (sup[s].msg.id = id /\ sup[s].origin = 0 /\ sup[s].pc = "failed")
                  => ResendCount(id) = MAX_RETRIES

\* the message nobody received has been re-enqueued more than MAX_RETRIES
\* times
C4_Witness ==
    /\ NeverAcked("a")
    /\ ResendCount("a") > MAX_RETRIES

\* C6: once a retry task has given up (its last wait timed out), the
\* pending-ack map holds no record for its message id.
C6_RecordRemovedOnFailure ==
    \A s \in 1..Len(sup) :
        (sup[s].pc = "failed" /\ NeverAcked(sup[s].msg.id))
        => acks[sup[s].msg.id] = 0

---------------------------------------------------------------------------
(* Properties of the queues' capacity, checked under SpecMonitor *)

\* C3: no queue ever holds more messages than its current capacity.
C3_DepthWithinCapacity ==
    \A r \in Receivers : Len(queues[r]) <= maxsize[r]

---------------------------------------------------------------------------
(* Properties of the subscribers, checked under SpecSub *)

\* q is a prefix of r
IsPrefix(q, r) == Len(q) <= Len(r) /\ SubSeq(r, 1, Len(q)) = q

C9_HandlerFailureContained ==
    [][\A i \in 1..Len(htasks) :
          (htasks[i].st = "pending" /\ htasks'[i].st = "raised")
            => /\ UNCHANGED <<prod, queues, acks, events, sup, history, received>>
               /\ Len(htasks') = Len(htasks)
               /\ \A j \in 1..Len(htasks) : j # i => htasks'[j] = htasks[j]
      ]_vars

\* one handler of MsgA raised, the other one ran and returned, the send
\* had returned, and the message is buffered with its pending-ack record
C9_Witness ==
    /\ \E i, j \in 1..Len(htasks) :
          /\ htasks[i].msg = MsgA /\ htasks[i].st = "raised"
          /\ htasks[j].msg = MsgA /\ htasks[j].st = "ok"
          /\ i < j
    /\ prod["p1"].pc = "returned"
    /\ prod["p1"].msg = MsgA
    /\ acks["a"] # 0
    /\ queues["irgat"] = <<MsgA>>

---------------------------------------------------------------------------
(* Properties of the Orchestrator, checked under SpecOrch *)

\* the places in the round's log of the event ev of agent a
Events(a, ev) ==
    {i \in 1..Len(orch.log) : orch.log[i] = [agent |-> a, ev |-> ev]}

\* C10: in every round, of run() and of run_single_cycle alike, the
\* execution agent's run_cycle is called only after the planning agent's
\* run_cycle has been called and has returned, and each of the two is
\* called at most once.
C10_PlanBeforeExecute ==
    /\ \A a \in {"pm", "irgat"} : Cardinality(Events(a, "call")) <= 1
    /\ \A j \in Events("irgat", "call") :
          \E i \in Events("pm", "ret") : i < j

\* the second counted round of run() has called both agents, and a round
\* of run_single_cycle came before run()
C10_Witness ==
    /\ orch.mode = "run"
    /\ orch.cycle_count = 1
    /\ orch.rounds = 3
    /\ orch.pc = "tally"
    /\ Events("irgat", "ret") # {}
    /\ Events("pm", "ret") # {}

\* the agent awaited by run() raises in this step
AgentRaises ==
    /\ orch.mode = "run"
    /\ orch.pc = "agent"
    /\ Len(orch'.log) = Len(orch.log) + 1
    /\ orch'.log[Len(orch'.log)].ev = "raise"

\* the loop of run() cannot start another round: it was told to stop, it
\* was cancelled, it is paused, or the explored number of rounds is used up
Held ==
    \/ ~orch.running
    \/ orch.cancelled
    \/ orch.paused
    \/ orch.rounds >= orch.quota

Looping ==
    /\ orch.mode = "run"
    /\ orch.pc \notin {"raised", "returned", "cancelled"}

\* C12: once _shutdown has been called while run() loops, no round is
\* started; the call itself changes nothing but the running flag, and a
\* round in progress goes on: when the planning agent returns, the
\* execution agent is called, and when it returns the round is tallied;
\* run() then returns (unless its task is cancelled), paused or not, and
\* when it has returned the attached bot has been stopped.
C12_ShutdownEndsLoop ==
    /\ [][/\ (Looping /\ ~orch.running) => orch'.rounds = orch.rounds
          /\ (orch.running /\ ~orch'.running)
               => orch' = [orch EXCEPT !.running = FALSE]
          /\ (/\ ~orch.running
              /\ orch.pc = "agent"
              /\ Len(orch'.log) > Len(orch.log)
              /\ orch'.log[Len(orch.log) + 1].ev = "ret")
               => IF orch.idx = 1
                  THEN /\ orch'.pc = "agent"
                       /\ orch'.idx = 2
                       /\ orch'.log[Len(orch'.log)]
                            = [agent |-> "irgat", ev |-> "call"]
                  ELSE orch'.pc = "tally"
          /\ orch'.pc = "returned" => orch'.stopped = orch'.telegram
         ]_vars
    /\ (Looping /\ ~orch.running) ~> (orch.pc = "returned" \/ orch.cancelled)

\* run() has returned and stopped its bot while paused, after the one
\* round it ran, which was counted
C12_Witness ==
    /\ orch.pc = "returned"
    /\ orch.telegram
    /\ orch.stopped
    /\ orch.paused
    /\ ~orch.running
    /\ ~orch.cancelled
    /\ orch.rounds = 1
    /\ orch.cycle_count = 1

\* C13: while the pause flag is set run() starts no round, and outside a
\* round it calls no agent and leaves cycle_count alone; pause() changes
\* nothing but the flag, and a round in progress goes on with the flag
\* set: when the planning agent returns the execution agent is called,
\* and when it returns the round is tallied; and when resume() finds
\* run() in its paused sleep, a round is started unless a shutdown, a
\* cancellation or another pause holds the loop.
C13_PauseAtLoopTop ==
    /\ [][/\ (orch.mode = "run" /\ orch.paused)
               => /\ orch'.rounds = orch.rounds
                  /\ orch.pc \in {"top", "pause_sleep"}
                       => /\ orch'.log = orch.log
                          /\ orch'.cycle_count = orch.cycle_count
          /\ (~orch.paused /\ orch'.paused)
               => orch' = [orch EXCEPT !.paused = TRUE]
          /\ (/\ orch.paused
              /\ orch.mode = "run"
              /\ orch.pc = "agent"
              /\ Len(orch'.log) > Len(orch.log)
              /\ orch'.log[Len(orch.log) + 1].ev = "ret")
               => IF orch.idx = 1
                  THEN /\ orch'.pc = "agent"
                       /\ orch'.log[Len(orch'.log)]
                            = [agent |-> "irgat", ev |-> "call"]
                  ELSE orch'.pc = "tally"
         ]_vars
    /\ (orch.pc = "pause_sleep" /\ ~orch.paused) ~> (orch.pc = "agent" \/ Held)

\* resume() was called while run() sleeps paused after its first round
C13_Witness ==
    /\ orch.mode = "run"
    /\ orch.pc = "pause_sleep"
    /\ ~orch.paused
    /\ orch.running
    /\ ~orch.cancelled
    /\ orch.rounds = 1
    /\ orch.cycle_count = 1

---------------------------------------------------------------------------
(* Properties of the load monitor, checked under SpecAdjust *)

\* the capacity ceiling of a queue
Ceiling == MAX_QUEUE_SIZE * CeilingFactor

\* an iteration of adjust_queue_sizes happens in this step
Ticked == budget'.ticks < budget.ticks

\* every sample of the window w is above 80%, resp. below 20%, of cap
StayedAbove(w, cap) == \A i \in 1..Len(w) : 10 * w[i] > 8 * cap
StayedBelow(w, cap) == \A i \in 1..Len(w) : 10 * w[i] < 2 * cap

\* the mean of the samples of the window w is above 80%, resp. below 20%,
\* of cap
MeanAbove(w, cap) == 10 * SumSeq(w) > 8 * cap * Len(w)
MeanBelow(w, cap) == 10 * SumSeq(w) < 2 * cap * Len(w)

\* C14, as stated: at an iteration of the monitor the capacity of a queue
\* grows when every sample of its window is above 80% of it and it is
\* below the ceiling, shrinks when every sample is below 20% of it and it
\* is above the base, and is unchanged otherwise.
C14_StayedDecides ==
    [][Ticked =>
         \A r \in Receivers :
            LET w == load'[r]
                cap == maxsize[r]
            IN  IF StayedAbove(w, cap) /\ cap < Ceiling
                THEN maxsize'[r] > cap
                ELSE IF StayedBelow(w, cap) /\ cap > MAX_QUEUE_SIZE
                     THEN maxsize'[r] < cap
                     ELSE maxsize'[r] = cap
      ]_vars

\* C14, amended: at an iteration of the monitor the capacity of a queue
\* grows when the mean of the samples of its window, the new sample
\* included, is above 80% of it and it is below the ceiling, shrinks when
\* that mean is below 20% of it and it is above the base, and is
\* unchanged otherwise.
C14_MeanDecides ==
    [][Ticked =>
         \A r \in Receivers :
            LET w == load'[r]
                cap == maxsize[r]
            IN  IF MeanAbove(w, cap) /\ cap < Ceiling
                THEN maxsize'[r] > cap
                ELSE IF MeanBelow(w, cap) /\ cap > MAX_QUEUE_SIZE
                     THEN maxsize'[r] < cap
                     ELSE maxsize'[r] = cap
      ]_vars

\* the capacity has grown and has shrunk: it is twice the base while the
\* window still holds a sample larger than that
C14_Witness ==
    /\ maxsize["irgat"] = 2 * MAX_QUEUE_SIZE
    /\ \E i \in 1..Len(load["irgat"]) : load["irgat"][i] > 2 * MAX_QUEUE_SIZE

---------------------------------------------------------------------------
(* Properties of resizing, checked under SpecMonitor *)

\* C16: an iteration of the monitor, whatever it resizes, changes nothing
\* but the load windows and the capacities: every queue keeps its
\* messages in their order, also when its new capacity is below their
\* number; it is one step of the monitor (resize does not wait); and a
\* queue that was full and has grown has room for a further message.
C16_ResizeKeepsContent ==
    [][Ticked =>
         /\ queues' = queues
         /\ UNCHANGED <<handlers, history, acks, events, sup, prod, htasks,
                        received>>
         /\ \A r \in Receivers :
               (Full(r) /\ maxsize'[r] > maxsize[r])
                 => Len(queues'[r]) < maxsize'[r]
      ]_vars

\* the irgat queue holds three messages, in the order they were sent,
\* under a capacity that grew to let them in and was then shrunk to two
C16_Witness ==
    /\ maxsize["irgat"] = MAX_QUEUE_SIZE
    /\ Len(queues["irgat"]) = MAX_QUEUE_SIZE + 1
    /\ \A i \in 1..(Len(queues["irgat"]) - 1) :
          Pos(history, queues["irgat"][i]) < Pos(history, queues["irgat"][i + 1])

---------------------------------------------------------------------------
(* The calls of a client: receive_all, receive, acknowledge, get_history *)

\* the step is the return of a call of op by the observed client
Returned(op) == ret' # ret /\ ret'.op = op

\* the Event of every message of q that has a pending-ack record is set
AllSet(ev, q) ==
    \A i \in 1..Len(q) : acks[q[i].id] # 0 => ev[acks[q[i].id]]

\* the bus state a call leaves alone when it returns nothing
BusUntouched == UNCHANGED <<queues, maxsize, acks, events, history>>

\* C17: receive_all(receiver) returns exactly the messages buffered for the
\* receiver when it is called, oldest first, leaves the queue empty, leaves
\* the Event of each of them that has a pending-ack record set, and changes
\* no other queue, record or history; for an empty queue and for a receiver
\* without a queue it returns the empty list and changes nothing; and it is
\* enabled in every state, for it never waits.
C17_ReceiveAllDrains ==
    /\ [][Returned("receive_all") =>
            LET r == ret'.arg IN
            /\ ~ret'.none
            /\ UNCHANGED <<acks, history, maxsize>>
            /\ IF r \in Receivers
               THEN /\ ret'.val = queues[r]
                    /\ queues' = [queues EXCEPT ![r] = <<>>]
                    /\ AllSet(events', queues[r])
                    /\ \A e \in 1..Len(events) :
                          events'[e] # events[e] =>
                            \E i \in 1..Len(queues[r]) : acks[queues[r][i].id] = e
                    /\ queues[r] = <<>> => BusUntouched
               ELSE ret'.val = <<>> /\ BusUntouched]_vars
    /\ [](\A r \in Clients : ENABLED receive_all(r))

\* receive_all has returned two messages, the first of them MsgA, and
\* the Events of both are set
C17_Witness ==
    /\ ret.op = "receive_all"
    /\ Len(ret.val) = 2
    /\ ret.val[1] = MsgA
    /\ \A i \in 1..2 : acks[ret.val[i].id] # 0 /\ events[acks[ret.val[i].id]]

\* C18: a receive(receiver, timeout) that found no message (the queue
\* stayed empty until the timeout, or the receiver has no queue) returns
\* None and leaves queues, pending-ack records, Events and history
\* unchanged; a receive with a message buffered returns the oldest buffered
\* message, removes it and nothing else from the queue, and leaves its
\* Event set if it has a pending-ack record, changing no other Event,
\* record or history.
C18_ReceiveOldestOrNone ==
    [][Returned("receive") =>
         LET r == ret'.arg IN
         IF r \notin Receivers \/ queues[r] = <<>>
         THEN ret'.none /\ ret'.val = <<>> /\ BusUntouched
         ELSE /\ ~ret'.none
              /\ ret'.val = <<Head(queues[r])>>
              /\ queues' = [queues EXCEPT ![r] = Tail(@)]
              /\ AllSet(events', ret'.val)
              /\ \A e \in 1..Len(events) :
                    events'[e] # events[e] => acks[Head(queues[r]).id] = e
              /\ UNCHANGED <<acks, history, maxsize>>]_vars

\* receive has returned MsgA, the older of two buffered messages: MsgB is
\* still buffered, and the Event of MsgA is set while that of MsgB is not
C18_Witness ==
    /\ ret.op = "receive"
    /\ ret.val = <<MsgA>>
    /\ queues["irgat"] = <<MsgB>>
    /\ acks["a"] # 0 /\ events[acks["a"]]
    /\ acks["b"] # 0 /\ ~events[acks["b"]]

\* receive has returned None for the empty queue of a registered receiver
\* while a message was buffered for another
C18_WitnessNone ==
    /\ ret.op = "receive" /\ ret.none /\ ret.arg = "pm"
    /\ queues["irgat"] # <<>>

\* C19: acknowledge(message_id) changes nothing but the Event of the
\* pending-ack record of the id; for an id without a record, and for an id
\* whose Event is already set, it changes no bus state; and the state it
\* leaves is the state another acknowledge of the same id would leave.
C19_AcknowledgeIdempotent ==
    [][Returned("acknowledge") =>
         LET id == ret'.arg IN
         /\ ret'.none
         /\ UNCHANGED <<queues, maxsize, acks, history, handlers, load>>
         /\ \A e \in 1..Len(events) : events'[e] # events[e] => acks[id] = e
         /\ (acks[id] = 0 \/ events[acks[id]]) => events' = events
         /\ acks[id] # 0 => events'[acks[id]]
         /\ AckSet(events', id) = events']_vars

\* acknowledge has returned for the id of a message that is still buffered,
\* so that no receive has acknowledged it: its Event is set
C19_Witness ==
    /\ ret.op = "acknowledge"
    /\ acks[ret.arg] # 0 /\ events[acks[ret.arg]]
    /\ \E i \in 1..Len(queues["irgat"]) : queues["irgat"][i].id = ret.arg

\* the last n messages of h, oldest first
LastOf(h, n) == SubSeq(h, Len(h) - Min(n, Len(h)) + 1, Len(h))

\* C20: for every limit >= 0 and every history, get_history(limit) returns
\* at most limit messages, namely the most recently sent ones in send
\* order, and leaves history, queues and pending-ack records unchanged.
C20_HistoryBounded ==
    [][Returned("get_history") =>
         /\ Len(ret'.val) <= ret'.limit
         /\ ret'.val = LastOf(history, ret'.limit)
         /\ BusUntouched]_vars

\* C20, for the limits above zero: get_history(limit) with limit >= 1
\* returns the last min(limit, len) messages of the history in send order
\* and no call of get_history changes the bus.
C20_HistoryBoundedPositive ==
    [][Returned("get_history") =>
         /\ ret'.limit >= 1 =>
               /\ Len(ret'.val) <= ret'.limit
               /\ ret'.val = LastOf(history, ret'.limit)
         /\ ret'.limit = 0 => ret'.val = history
         /\ BusUntouched]_vars

\* get_history(0) has returned a message
C20_Witness ==
    ret.op = "get_history" /\ ret.limit = 0 /\ ret.val # <<>>

---------------------------------------------------------------------------
(* Properties of the failure paths of send and of the retry tasks *)

\* the log write of producer p's send ends in this step
LogEnds(p) == prod[p].pc = "logging" /\ prod'[p].pc # "logging"

\* C21: whatever error the log write of a send ends with, the error does
\* not reach the caller of send, and send goes on: for a receiver with a
\* queue it enqueues the message and creates the pending-ack record, at
\* once or after waiting for space, and it fires the subscribed handlers.
C21_LogFailureContained ==
    [][\A p \in DOMAIN prod :
         LogEnds(p) =>
           /\ prod'[p].pc \in {"polling", "returned"}
           /\ prod'[p].pc = "returned" =>
                 /\ htasks' = htasks \o Fired(prod[p].msg)
                 /\ prod[p].msg.receiver \in Receivers =>
                       /\ queues'[prod[p].msg.receiver] =
                            Append(queues[prod[p].msg.receiver], prod[p].msg)
                       /\ acks'[prod[p].msg.id] # 0]_vars

\* a send has raised to its caller: its message is in the history, but it
\* is in no queue and has no pending-ack record
C21_Witness ==
    \E p \in DOMAIN prod :
        /\ prod[p].pc = "raised"
        /\ prod[p].msg \in Range(history)
        /\ \A r \in Receivers : prod[p].msg \notin Range(queues[r])
        /\ acks[prod[p].msg.id] = 0

---------------------------------------------------------------------------
(* Properties of the hook pass, checked under SpecHooks *)

\* a round of run() succeeds in this step: _run_cycle returns
RoundSucceeds ==
    orch.mode = "run" /\ orch.pc = "tally" /\ orch'.pc = "hooks"

\* a hook raises in this step
HookRaises ==
    /\ orch.pc = "hooks"
    /\ Len(orch'.fired) = Len(orch.fired) + 1
    /\ orch'.fired[Len(orch'.fired)].out = "raised"

\* the hook pass of a round ends in this step
PassEnds == orch.pc = "hooks" /\ orch'.pc = "report"

\* C22: a successful round of run() counts the cycle and starts a hook
\* pass; when the pass ends every registered hook has been invoked once,
\* in registration order, with the new cycle number and the result of the
\* round; a hook that raises leaves the pass going, run() running and the
\* cycle count and the time stamp of the round as they were.
C22_HooksAllFired ==
    [][/\ RoundSucceeds =>
            /\ orch'.cycle_count = orch.cycle_count + 1
            /\ orch'.stamp = orch.rounds
            /\ orch'.fired = <<>>
       /\ PassEnds =>
            /\ Len(orch.fired) = Len(orch.hooks)
            /\ \A i \in 1..Len(orch.hooks) :
                  /\ orch.fired[i].hook = orch.hooks[i]
                  /\ orch.fired[i].n = orch.cycle_count
                  /\ orch.fired[i].result = orch.rounds
            /\ orch.stamp = orch.rounds
       /\ HookRaises =>
            /\ orch'.pc = "hooks"
            /\ orch'.hk = orch.hk + 1
            /\ orch'.running = orch.running
            /\ orch'.cycle_count = orch.cycle_count
            /\ orch'.stamp = orch.stamp
       /\ orch.pc = "hooks" =>
            orch'.pc \in {"hooks", "report"} \/ orch'.cancelled
      ]_vars

\* the pass of the second cycle has ended: the first of two hooks raised
\* and the second was invoked after it, both with cycle number 2
C22_Witness ==
    /\ orch.pc = "report"
    /\ orch.cycle_count = 2
    /\ orch.hooks = <<"k1", "k2">>
    /\ Len(orch.fired) = 2
    /\ orch.fired[1] = [hook |-> "k1", n |-> 2, result |-> orch.rounds, out |-> "raised"]
    /\ orch.fired[2].hook = "k2" /\ orch.fired[2].out = "ok"

---------------------------------------------------------------------------
(* Properties of the maintenance pass, checked under SpecOrch *)

\* the cycle count run() has just updated is a positive multiple of N
Due(o) == o.cycle_count > 0 /\ o.cycle_count % SELF_IMPROVE_EVERY_N_CYCLES = 0

\* run() leaves the report and the status table of a cycle in this step,
\* its task not being cancelled
ReportEnds == orch.pc = "report" /\ orch'.pc # "report" /\ ~orch'.cancelled

\* C23: in run() the maintenance pass is started after a round exactly
\* when the updated cycle count is a positive multiple of N: it is started
\* in every cycle whose count is such a multiple and in no other, and the
\* sleep between cycles starts after the pass in those cycles.
C23_MaintenanceEveryN ==
    [][/\ ReportEnds => (orch'.pc = "maintain" <=> Due(orch))
       /\ (orch'.pc = "sleep" /\ orch.pc # "sleep") =>
             \/ orch.pc = "maintain" /\ Due(orch)
             \/ orch.pc = "report" /\ ~Due(orch)
      ]_vars

\* C23, for what run() does when nothing raises between the hook pass and
\* the maintenance pass: the pass starts only in a cycle whose count is a
\* positive multiple of N, it starts in each such cycle whose report and
\* status table returned, and the sleep between cycles starts after it.
C23_MaintenanceOnlyWhenDue ==
    [][/\ (orch'.pc = "maintain" /\ orch.pc # "maintain") =>
             orch.pc = "report" /\ Due(orch)
       /\ (ReportEnds /\ orch'.pc # "err_sleep") =>
             (orch'.pc = "maintain" <=> Due(orch))
       /\ (orch'.pc = "sleep" /\ orch.pc # "sleep") =>
             \/ orch.pc = "maintain" /\ Due(orch)
             \/ orch.pc = "report" /\ ~Due(orch)
      ]_vars

\* the fifth cycle was counted and run() sleeps after an error raised in
\* that cycle, no maintenance pass having been completed
C23_Witness ==
    /\ orch.pc = "err_sleep"
    /\ orch.cycle_count = SELF_IMPROVE_EVERY_N_CYCLES
    /\ orch.stamp = orch.rounds
    /\ orch.maint = 0

---------------------------------------------------------------------------
(* Properties of the retry tasks, checked under Spec and SpecRetry *)

\* C24: no retry task ends with an unhandled error: each one ends by
\* seeing the acknowledgment or by using up its attempts.
C24_NoSupervisorCrash ==
    \A s \in 1..Len(sup) : sup[s].pc # "crashed"

\* a message was resent and then received: the task of the producer's
\* send saw the acknowledgment and deleted the record, and the task the
\* resend created ended with KeyError
C24_Witness ==
    \E s, t \in 1..Len(sup) :
        /\ sup[s].origin = 0 /\ sup[s].pc = "done"
        /\ sup[t].origin = s /\ sup[t].pc = "crashed"
        /\ sup[t].msg.id = sup[s].msg.id
        /\ sup[s].msg \in Range(received[sup[s].msg.receiver])

\* retry task s has not ended
Armed(s) == sup[s].pc \notin {"done", "failed", "crashed"}

\* the retry tasks that have not ended and retry the message with this id
ArmedFor(id) == {s \in 1..Len(sup) : Armed(s) /\ sup[s].msg.id = id}

\* C25: at any time at most one retry task is armed for a message id: a
\* resend re-arms the task that made it and starts no other task.
C25_OneSupervisorPerMessage ==
    \A id \in MsgIds : Cardinality(ArmedFor(id)) <= 1

\* after one resend two retry tasks wait on the same Event for the same
\* message: the one that resent and the one its send created
C25_Witness ==
    \E s, t \in 1..Len(sup) :
        /\ sup[t].origin = s
        /\ sup[s].pc = "wait" /\ sup[t].pc = "wait"
        /\ sup[s].ev = sup[t].ev
        /\ sup[s].attempt = 1
        /\ sup[s].msg.id = sup[t].msg.id

\* the number of entries of the sequence q with this message id
RECURSIVE CountId(_, _)
CountId(q, id) ==
    IF q = <<>> THEN 0
    ELSE (IF Head(q).id = id THEN 1 ELSE 0) + CountId(Tail(q), id)

\* C26: a message id a receiver has consumed is not returned to it again
\* by a later receive or receive_all, whatever was resent.
C26_ConsumedOnce ==
    \A r \in Receivers, id \in MsgIds : CountId(received[r], id) <= 1

\* MsgA, sent once by its producer, has been returned twice to irgat, the
\* second time as the copy a retry task had put on the queue
C26_Witness ==
    /\ received["irgat"] = <<MsgA, MsgA>>
    /\ \E s \in 1..Len(sup) : sup[s].origin # 0 /\ sup[s].msg = MsgA

\* the delivery of the message with this id has failed: the retry task of
\* a producer's send of it has used up its attempts
Failed(id) ==
    \E s \in 1..Len(sup) :
        sup[s].origin = 0 /\ sup[s].msg.id = id /\ sup[s].pc = "failed"

\* C27: a pending-ack record exists only for a message that was routed into
\* a queue and has not failed, and a record whose message was acknowledged
\* has a retry task still armed to remove it.
C27_RecordOnlyWhilePending ==
    \A id \in MsgIds :
        acks[id] # 0 =>
            /\ \E s \in 1..Len(sup) : sup[s].msg.id = id
            /\ ~Failed(id)
            /\ events[acks[id]] => ArmedFor(id) # {}

\* every copy put on a queue has been received, every send has returned
\* and every retry task has ended
Quiet ==
    /\ \A r \in Receivers : queues[r] = <<>>
    /\ \A p \in DOMAIN prod : prod[p].pc \in {"idle", "returned"}
    /\ \A s \in 1..Len(sup) : ~Armed(s)

\* C27, for the messages that are received: a record is created in the
\* step that enqueues its message and in no other, it is removed only by a
\* retry task of its id that has seen the Event set, and when every copy
\* has been received and every retry task has ended the map is empty.
C27_EmptyWhenAllReceived ==
    /\ [][\A id \in MsgIds :
            /\ (acks'[id] # acks[id] /\ acks'[id] # 0) =>
                  \E r \in Receivers :
                      /\ Len(queues'[r]) = Len(queues[r]) + 1
                      /\ queues'[r][Len(queues'[r])].id = id
            /\ (acks[id] # 0 /\ acks'[id] = 0) =>
                  /\ events[acks[id]]
                  /\ \E s \in 1..Len(sup) :
                        /\ sup[s].msg.id = id
                        /\ sup[s].pc = "wait" /\ sup'[s].pc = "done"]_vars
    /\ [](Quiet => \A id \in MsgIds : acks[id] = 0)

\* the message nobody received has failed, and the map still holds a
\* record for it, with an Event that was never set
C27_Witness ==
    /\ Failed("a")
    /\ received["irgat"] = <<>>
    /\ acks["a"] # 0
    /\ ~events[acks["a"]]

---------------------------------------------------------------------------
(* Properties of backpressure, checked under SpecPressure *)

\* C28: if the receiver keeps dequeuing, so that the queue has room again
\* and again, every send that waits on the full queue completes, whatever
\* the other producers send meanwhile.
C28_NoStarvation ==
    ([]<>(~Full("irgat"))) =>
        \A p \in {"p1", "p2"} :
            (prod[p].pc = "polling") ~> (prod[p].pc = "returned")

\* a send waits on the full queue
C28_Witness ==
    /\ prod["p1"].pc = "polling"
    /\ prod["p1"].waited
    /\ Full("irgat")

---------------------------------------------------------------------------
(* Properties of the resend, checked under SpecResend *)

\* the handler tasks created for handler h and message m
Invocations(h, m) ==
    {i \in 1..Len(htasks) : htasks[i].handler = h /\ htasks[i].msg = m}

\* the subscriptions of handler h to message type t
Subscriptions(h, t) ==
    {k \in 1..Len(handlers[t]) : handlers[t][k] = h}

\* C29: a resend only re-enqueues the message.  Each message being sent
\* once by its producer, the history holds it at most once and each
\* subscribed handler is invoked for it at most once per subscription,
\* however many times it is retried.
C29_ResendOnlyEnqueues ==
    /\ \A id \in MsgIds : CountId(history, id) <= 1
    /\ \A h \in Handlers, m \in Messages :
          Cardinality(Invocations(h, m)) <= Cardinality(Subscriptions(h, m.msg_type))

\* after one resend of MsgA the history holds it twice and the one
\* subscribed handler has been invoked for it twice
C29_Witness ==
    /\ prod["p1"].pc = "returned"
    /\ history = <<MsgA, MsgA>>
    /\ Len(handlers["task_assign"]) = 1
    /\ Len(htasks) = 2
    /\ htasks[1].msg = MsgA /\ htasks[2].msg = MsgA
    /\ htasks[1].handler = htasks[2].handler

---------------------------------------------------------------------------
(* Properties of SystemState.cycle_count, checked under SpecOrch *)

\* both agents of the round have returned and _run_cycle ends in this
\* step, by returning or by raising, its task not being cancelled
AgentsDone == orch.pc = "tally" /\ orch'.pc # "tally" /\ ~orch'.cancelled

\* cycle_count and last_cycle_at are as they were
CountKept ==
    orch'.cycle_count = orch.cycle_count /\ orch'.stamp = orch.stamp

\* C30: cycle_count never decreases; it is incremented by exactly one for
\* each round of run() in which both agents return normally; a round in
\* which an agent raises leaves cycle_count and last_cycle_at unchanged;
\* run_single_cycle never changes cycle_count.
C30_CountsAgentRounds ==
    [][/\ orch'.cycle_count \in {orch.cycle_count, orch.cycle_count + 1}
       /\ (AgentsDone /\ orch.mode = "run") =>
             orch'.cycle_count = orch.cycle_count + 1
       /\ (orch.pc = "agent" /\ orch'.pc # "agent") => CountKept
       /\ (orch.mode = "single" \/ orch'.mode = "single") => CountKept
      ]_vars

\* C30, amended: cycle_count never decreases; it is incremented by
\* exactly one, and last_cycle_at is set, in exactly the steps in which
\* _run_cycle returns to run(): both agents and the read of the completed
\* tasks have returned normally; a round in which an agent or that read
\* raises, and every round of run_single_cycle, leave both unchanged.
C30_CountsReturnedRounds ==
    [][/\ orch'.cycle_count \in {orch.cycle_count, orch.cycle_count + 1}
       /\ IF RoundSucceeds
          THEN /\ orch'.cycle_count = orch.cycle_count + 1
               /\ orch'.stamp = orch.rounds
          ELSE CountKept
       /\ (AgentsDone /\ orch.mode = "run") =>
             (RoundSucceeds <=> orch'.pc # "err_sleep")
       /\ (orch.mode = "single" \/ orch'.mode = "single") => CountKept
      ]_vars

\* the third round of run() has just been counted as the second cycle:
\* one of the rounds before it raised and was not counted
C30_Witness ==
    /\ orch.mode = "run"
    /\ orch.pc = "hooks"
    /\ orch.rounds = 3
    /\ orch.cycle_count = 2
    /\ orch.stamp = 3

====
